---- MODULE Spec2Model ----
(***************************************************************************)
(* The SearchTabs component (src/src/components/landingPage/SearchTabs.tsx)*)
(* as a state machine: the component's useState cells, the requests that   *)
(* handleSearch has dispatched and that have not settled, and the          *)
(* requestAnimationFrame loop of scrollToElement.                          *)
(*                                                                         *)
(* Texts are sequences of one-character strings, so that trim() and        *)
(* encodeURIComponent() are computed character by character.               *)
(* A nullable value is <<>> (null) or <<v>>.                               *)
(***************************************************************************)
EXTENDS Integers, Sequences, FiniteSets, TLC

VARIABLES
    keyword,              \* useState("")                          line 17
    contentType,          \* useState("all")                       line 18
    isLoading,            \* useState(false)                       line 19
    hasSearched,          \* useState(false)                       line 20
    results,              \* useState<SearchResult[]>([])          line 21
    error,                \* useState<string | null>(null)         line 22
    showQuestionOptions,  \* useState(true)                        line 23
    showKeywordOptions,   \* useState(true)                        line 24
    tab,                  \* the active tab of <Tabs defaultValue="ask">
    inFlight,             \* fetch promises awaited at line 109, not settled
    fetched,              \* the URL of the latest fetch call (line 109-113)
    lastEvent,            \* history: the handler that ran last, and its input
    scrollTop,            \* last `top` given to window.scrollTo, in 1/Scale px
    startPosition,        \* scrollToElement's local                line 33
    targetPosition,       \* scrollToElement's local                line 34
    start,                \* scrollToElement's `let start = null`   line 38
    scheduled,            \* a requestAnimationFrame(step) callback is queued
    now                   \* timestamp of the latest animation frame

searchVars == <<keyword, contentType, isLoading, hasSearched, results, error,
                showQuestionOptions, showKeywordOptions, tab, inFlight, fetched,
                lastEvent>>
scrollVars == <<scrollTop, startPosition, targetPosition, start, scheduled, now>>
vars == <<keyword, contentType, isLoading, hasSearched, results, error,
          showQuestionOptions, showKeywordOptions, tab, inFlight, fetched,
          lastEvent, scrollTop, startPosition, targetPosition, start,
          scheduled, now>>

(***************************************************************************)
(* Bounds of the model.                                                    *)
(***************************************************************************)
\* requests that may be awaiting settlement at the same time
MaxInFlight == 2
\* how many chips of each suggestion list the model clicks (the first ones)
MaxChip == 1
\* how many entries of the content-type select the model picks (the first ones)
MaxTypes == 2
\* animation frames arrive at multiples of TickMs milliseconds, up to MaxTicks
TickMs == 50
MaxTicks == 14

NULL == <<>>
Some(v) == <<v>>

(***************************************************************************)
(* Text helpers.                                                           *)
(***************************************************************************)
IsWhitespace(c) == c \in {" ", "\t", "\n", "\r"}

RECURSIVE TrimStart(_)
TrimStart(s) ==
    IF s # <<>> /\ IsWhitespace(Head(s)) THEN TrimStart(Tail(s)) ELSE s

RECURSIVE TrimEnd(_)
TrimEnd(s) ==
    IF s # <<>> /\ IsWhitespace(s[Len(s)])
    THEN TrimEnd(SubSeq(s, 1, Len(s) - 1))
    ELSE s

\* trim() left out of the guard of line 96: `if (!keyword) return;`
trimNothing(s) == s

\* String.prototype.trim
trim(s) == TrimEnd(TrimStart(s))

\* encodeURIComponent on the characters the model types: letters pass,
\* the space and the question mark are percent-encoded
EncodeChar(c) ==
    IF c = " " THEN <<"%", "2", "0">>
    ELSE IF c = "?" THEN <<"%", "3", "F">>
    ELSE <<c>>

RECURSIVE encodeURIComponent(_)
encodeURIComponent(s) ==
    IF s = <<>> THEN <<>> ELSE EncodeChar(Head(s)) \o encodeURIComponent(Tail(s))

\* Array.prototype.sort((a, b) => a.length - b.length): stable, ascending length
RECURSIVE InsertByLength(_, _)
InsertByLength(x, s) ==
    IF s = <<>> THEN <<x>>
    ELSE IF Len(Head(s)) <= Len(x)
         THEN <<Head(s)>> \o InsertByLength(x, Tail(s))
         ELSE <<x>> \o s

RECURSIVE SortByLength(_)
SortByLength(s) ==
    IF s = <<>> THEN <<>>
    ELSE InsertByLength(s[Len(s)], SortByLength(SubSeq(s, 1, Len(s) - 1)))

keywordOptions ==
    SortByLength(<<
       <<"D", "V", "N">>,
       <<"O", "r", "a", "c", "l", "e">>,
       <<"e", "d", "u", "c", "a", "t", "i", "o", "n">>,
       <<"r", "e", "s", "e", "a", "r", "c", "h">>,
       <<"i", "n", "n", "o", "v", "a", "t", "i", "o", "n">>,
       <<"d", "a", "t", "a">>,
       <<"a", "n", "a", "l", "y", "s", "i", "s">> >>)

questionOptions ==
    SortByLength(<<
       <<"W", "h", "a", "t", " ", "i", "s", " ", "L", "a", "y", "e", "r", "Z", "e", "r", "o", "?", "?">>,
       <<"H", "o", "w", " ", "i", "s", " ", "L", "a", "y", "e", "r", "Z", "e", "r", "o", " ", "d", "i", "f", "f", "e", "r", "e", "n", "t", " ", "f", "r", "o", "m", " ", "b", "r", "i", "d", "g", "e", "s", "?">>,
       <<"W", "h", "a", "t", " ", "a", "r", "e", " ", "L", "a", "y", "e", "r", "Z", "e", "r", "o", " ", "e", "n", "d", "p", "o", "i", "n", "t", "s", "?">>,
       <<"W", "h", "i", "c", "h", " ", "c", "h", "a", "i", "n", "s", " ", "s", "u", "p", "p", "o", "r", "t", " ", "L", "a", "y", "e", "r", "Z", "e", "r", "o", "?">>,
       <<"H", "o", "w", " ", "d", "o", "e", "s", " ", "L", "a", "y", "e", "r", "Z", "e", "r", "o", " ", "s", "t", "a", "y", " ", "s", "e", "c", "u", "r", "e", "?">> >>)

\* the <SelectItem value=...> entries, in document order
contentTypes == <<"all", "news", "research", "reports", "articles">>

Min(a, b) == IF a < b THEN a ELSE b

(***************************************************************************)
(* Inputs of the model.                                                    *)
(***************************************************************************)
\* the chips the model clicks
KeywordChips == {keywordOptions[i] : i \in 1..Min(MaxChip, Len(keywordOptions))}
QuestionChips == {questionOptions[i] : i \in 1..Min(MaxChip, Len(questionOptions))}

\* what the user types into the query input: nothing, only whitespace, a
\* word, or the text of a chip
TypedTexts ==
    {<<>>, <<" ", " ">>, <<"l", "z">>} \cup KeywordChips \cup QuestionChips

\* the keys handleKeyDown sees
Keys == {"Enter", "a"}

\* the values the select hands to onValueChange
SelectableTypes == {contentTypes[i] : i \in 1..Min(MaxTypes, Len(contentTypes))}

TabValues == {"ask", "keyword"}

\* opaque records of the backend
SearchResults == {[id |-> 1]}

\* A body the server sends: whether response.json() parses it, and, when it
\* does, the parsed value: an array (`items`) or an object whose `error`
\* field is `error` ("" when the field is absent or empty).
JsonArray(items) == [valid |-> TRUE, isArray |-> TRUE, items |-> items, error |-> ""]
JsonObject(err)  == [valid |-> TRUE, isArray |-> FALSE, items |-> <<>>, error |-> err]
NotJson          == [valid |-> FALSE, isArray |-> FALSE, items |-> <<>>, error |-> ""]

\* How a fetch settles: it rejects with `reason`, or resolves to a Response.
Rejection(isError, message) ==
    [rejected |-> TRUE, reason |-> [isError |-> isError, message |-> message],
     status |-> 0, statusText |-> "", body |-> NotJson]
HttpResponse(status, statusText, body) ==
    [rejected |-> FALSE, reason |-> [isError |-> FALSE, message |-> ""],
     status |-> status, statusText |-> statusText, body |-> body]

Responses ==
    { Rejection(TRUE, "Failed to fetch"),
      Rejection(FALSE, "aborted"),
      HttpResponse(500, "Internal Server Error", JsonObject("db down")),
      HttpResponse(500, "Internal Server Error", JsonObject("")),
      HttpResponse(500, "Internal Server Error", NotJson),
      HttpResponse(200, "OK", NotJson),
      HttpResponse(200, "OK", JsonArray(<<>>)) }
    \cup { HttpResponse(200, "OK", JsonArray(<<r>>)) : r \in SearchResults }

(***************************************************************************)
(* The render guards of the JSX (lines 185-406).                           *)
(***************************************************************************)
\* line 246, inside <TabsContent value="ask">: the header with the toggle
QuestionPanelRendered == tab = "ask" /\ (~hasSearched \/ showQuestionOptions)
\* line 264: the chips of the question panel
QuestionChipsRendered == QuestionPanelRendered /\ showQuestionOptions
\* line 351, inside <TabsContent value="keyword">: the header with the toggle
KeywordPanelRendered == tab = "keyword" /\ (~hasSearched \/ showKeywordOptions)
\* line 369: the chips of the keyword panel
KeywordChipsRendered == KeywordPanelRendered /\ showKeywordOptions
\* lines 236 and 321: disabled={isLoading}
SearchButtonEnabled == ~isLoading

(***************************************************************************)
(* handleSearch, lines 95-150.                                             *)
(***************************************************************************)
Exception(isError, message) == [isError |-> isError, message |-> message]

\* the template literal of lines 110-112 (the base URL is a build constant)
SearchUrl(kw, type) ==
    [path |-> "/api/search", q |-> encodeURIComponent(kw), type |-> type]

\* Response.ok
ok(response) == response.status >= 200 /\ response.status <= 299

\* response.json(): the parsed body, or a SyntaxError
ResponseJson(response) ==
    IF response.body.valid
    THEN [threw |-> FALSE, value |-> response.body,
          exception |-> Exception(FALSE, "")]
    ELSE [threw |-> TRUE, value |-> response.body,
          exception |-> Exception(TRUE, "Unexpected token in JSON")]

\* `Error: ${response.status} ${response.statusText}`
StatusMessage(response) ==
    "Error: " \o ToString(response.status) \o " " \o response.statusText

\* lines 116-121, the try block: response.json() throws, or line 118 throws
\* an Error carrying errorData.error || the status message
NotOkTry(response) ==
    LET errorData == ResponseJson(response)
    IN  IF errorData.threw
        THEN errorData.exception
        ELSE Exception(TRUE, IF errorData.value.error # ""
                             THEN errorData.value.error
                             ELSE StatusMessage(response))

\* lines 122-127, the catch of that try block: it takes whatever the block
\* threw, the Error of line 118 included, and throws its own Error
NotOkCatch(response, jsonError) ==
    Exception(TRUE, StatusMessage(response)
                    \o ". The API endpoint may not be available.")

\* lines 115-128: what a response that is not ok makes handleSearch throw
NotOkThrown(response) == NotOkCatch(response, NotOkTry(response))

InvalidResponseMessage ==
    "The API returned an invalid response. Please check server configuration."

\* lines 130-138 with the catch swallowing the parse error: data = []
ParseDataSilent(response) ==
    LET parsed == ResponseJson(response)
    IN  [threw |-> FALSE,
         data |-> IF parsed.threw \/ ~parsed.value.isArray THEN <<>>
                  ELSE parsed.value.items,
         exception |-> Exception(FALSE, "")]

\* lines 130-138: data, or the Error thrown for a body that does not parse
ParseData(response) ==
    LET parsed == ResponseJson(response)
    IN  IF parsed.threw
        THEN [threw |-> TRUE, data |-> <<>>,
              exception |-> Exception(TRUE, InvalidResponseMessage)]
        ELSE [threw |-> FALSE,
              data |-> IF parsed.value.isArray THEN parsed.value.items
                       ELSE parsed.value,
              exception |-> Exception(FALSE, "")]

\* lines 104-140: the try block from the settlement of fetch on
TryBlock(settlement) ==
    IF settlement.rejected
    THEN [threw |-> TRUE, data |-> <<>>, exception |-> settlement.reason]
    ELSE IF ~ok(settlement)
    THEN [threw |-> TRUE, data |-> <<>>, exception |-> NotOkThrown(settlement)]
    ELSE ParseData(settlement)

\* lines 143-145
CatchMessage(err) ==
    IF err.isError THEN err.message ELSE "An unknown error occurred"

\* lines 96-113 without the setError(null) of line 99
handleSearchKeepsError(kw) ==
    IF trim(kw) = <<>>
    THEN UNCHANGED <<contentType, isLoading, hasSearched, results, error,
                     showQuestionOptions, showKeywordOptions, inFlight, fetched>>
    ELSE /\ inFlight < MaxInFlight
         /\ isLoading' = TRUE
         /\ hasSearched' = TRUE
         /\ showQuestionOptions' = FALSE
         /\ showKeywordOptions' = FALSE
         /\ fetched' = Some(SearchUrl(kw, contentType))
         /\ inFlight' = inFlight + 1
         /\ UNCHANGED <<contentType, results, error>>

\* lines 96-113: the synchronous part of handleSearch, run by a handler whose
\* closure holds kw as `keyword`; it does not write `keyword`
handleSearch(kw) ==
    IF trim(kw) = <<>>
    THEN UNCHANGED <<contentType, isLoading, hasSearched, results, error,
                     showQuestionOptions, showKeywordOptions, inFlight, fetched>>
    ELSE /\ inFlight < MaxInFlight
         /\ isLoading' = TRUE
         /\ error' = NULL
         /\ hasSearched' = TRUE
         /\ showQuestionOptions' = FALSE
         /\ showKeywordOptions' = FALSE
         /\ fetched' = Some(SearchUrl(kw, contentType))
         /\ inFlight' = inFlight + 1
         /\ UNCHANGED <<contentType, results>>

\* the terminal outcome of a settlement (section 7 of the specification)
Kind(settlement) ==
    IF settlement.rejected THEN "transport"
    ELSE IF ~ok(settlement) THEN "server error"
    ELSE IF ~settlement.body.valid THEN "malformed"
    ELSE "success"

\* lines 109-149: the fetch of one dispatched request settles and the rest
\* of handleSearch runs
settle(settlement) ==
    /\ inFlight > 0
    /\ LET out == TryBlock(settlement)
       IN  IF out.threw
           THEN /\ error' = Some(CatchMessage(out.exception))
                /\ results' = <<>>
           ELSE /\ results' = out.data
                /\ UNCHANGED error
    /\ isLoading' = FALSE
    /\ inFlight' = inFlight - 1
    /\ lastEvent' = [op |-> "settle", arg |-> Kind(settlement)]
    /\ UNCHANGED <<keyword, contentType, hasSearched, showQuestionOptions,
                   showKeywordOptions, tab, fetched>>
    /\ UNCHANGED scrollVars

(***************************************************************************)
(* The event handlers.                                                     *)
(***************************************************************************)
\* lines 230 and 315: onChange={(e) => setKeyword(e.target.value)}
onChange(text) ==
    /\ keyword' = text
    /\ lastEvent' = [op |-> "onChange", arg |-> ""]
    /\ UNCHANGED <<contentType, isLoading, hasSearched, results, error,
                   showQuestionOptions, showKeywordOptions, tab, inFlight,
                   fetched>>
    /\ UNCHANGED scrollVars

\* lines 162-166
handleKeyDown(key) ==
    /\ IF key = "Enter"
       THEN handleSearch(keyword)
       ELSE UNCHANGED <<contentType, isLoading, hasSearched, results, error,
                        showQuestionOptions, showKeywordOptions, inFlight,
                        fetched>>
    /\ lastEvent' = [op |-> "handleKeyDown", arg |-> key]
    /\ UNCHANGED <<keyword, tab>>
    /\ UNCHANGED scrollVars

\* lines 233-243 and 318-328: the Search button
clickSearch ==
    /\ SearchButtonEnabled
    /\ handleSearch(keyword)
    /\ lastEvent' = [op |-> "clickSearch", arg |-> ""]
    /\ UNCHANGED <<keyword, tab>>
    /\ UNCHANGED scrollVars

\* lines 152-155; handleSearch is the one of the render the chip was drawn
\* in, so it reads the `keyword` of that render
handleKeywordClick(selectedKeyword) ==
    /\ KeywordChipsRendered
    /\ keyword' = selectedKeyword
    /\ handleSearch(keyword)
    /\ lastEvent' = [op |-> "handleKeywordClick", arg |-> ""]
    /\ UNCHANGED tab
    /\ UNCHANGED scrollVars

\* lines 157-160
handleQuestionClick(question) ==
    /\ QuestionChipsRendered
    /\ keyword' = question
    /\ handleSearch(keyword)
    /\ lastEvent' = [op |-> "handleQuestionClick", arg |-> ""]
    /\ UNCHANGED tab
    /\ UNCHANGED scrollVars

\* line 333: onValueChange={(value) => setContentType(value)}
setContentType(value) ==
    /\ tab = "keyword"
    /\ contentType' = value
    /\ lastEvent' = [op |-> "setContentType", arg |-> value]
    /\ UNCHANGED <<keyword, isLoading, hasSearched, results, error,
                   showQuestionOptions, showKeywordOptions, tab, inFlight,
                   fetched>>
    /\ UNCHANGED scrollVars

\* lines 168-170, reached through the header of line 250
toggleQuestionOptions ==
    /\ QuestionPanelRendered
    /\ showQuestionOptions' = ~showQuestionOptions
    /\ lastEvent' = [op |-> "toggleQuestionOptions", arg |-> ""]
    /\ UNCHANGED <<keyword, contentType, isLoading, hasSearched, results, error,
                   showKeywordOptions, tab, inFlight, fetched>>
    /\ UNCHANGED scrollVars

\* lines 172-174, reached through the header of line 355
toggleKeywordOptions ==
    /\ KeywordPanelRendered
    /\ showKeywordOptions' = ~showKeywordOptions
    /\ lastEvent' = [op |-> "toggleKeywordOptions", arg |-> ""]
    /\ UNCHANGED <<keyword, contentType, isLoading, hasSearched, results, error,
                   showQuestionOptions, tab, inFlight, fetched>>
    /\ UNCHANGED scrollVars

\* lines 176-183, the onClick of both tab triggers (lines 192 and 199)
resetSearch(value) ==
    /\ tab' = value
    /\ hasSearched' = FALSE
    /\ showQuestionOptions' = TRUE
    /\ showKeywordOptions' = TRUE
    /\ keyword' = <<>>
    /\ results' = <<>>
    /\ error' = NULL
    /\ lastEvent' = [op |-> "resetSearch", arg |-> value]
    /\ UNCHANGED <<contentType, isLoading, inFlight, fetched>>
    /\ UNCHANGED scrollVars

(***************************************************************************)
(* The component after its first render.                                   *)
(***************************************************************************)
Init ==
    /\ keyword = <<>>
    /\ contentType = "all"
    /\ isLoading = FALSE
    /\ hasSearched = FALSE
    /\ results = <<>>
    /\ error = NULL
    /\ showQuestionOptions = TRUE
    /\ showKeywordOptions = TRUE
    /\ tab = "ask"
    /\ inFlight = 0
    /\ fetched = NULL
    /\ lastEvent = [op |-> "mount", arg |-> ""]
    /\ scrollTop = 0
    /\ startPosition = 0
    /\ targetPosition = 0
    /\ start = NULL
    /\ scheduled = FALSE
    /\ now = NULL

Next ==
    \/ \E text \in TypedTexts : onChange(text)
    \/ \E key \in Keys : handleKeyDown(key)
    \/ clickSearch
    \/ \E k \in KeywordChips : handleKeywordClick(k)
    \/ \E q \in QuestionChips : handleQuestionClick(q)
    \/ \E value \in SelectableTypes : setContentType(value)
    \/ toggleQuestionOptions
    \/ toggleKeywordOptions
    \/ \E value \in TabValues : resetSearch(value)
    \/ \E settlement \in Responses : settle(settlement)

Spec == Init /\ [][Next]_vars

(***************************************************************************)
(* The scroll effect, lines 28-73.  Positions are whole pixels; scrollTop  *)
(* is kept in units of 1/Scale pixel, Scale = duration * duration, which   *)
(* makes startPosition + distance * easeInOutQuad(progress) exact.         *)
(***************************************************************************)
\* const duration = 500; // ms
duration == 500
Scale == duration * duration

\* window.scrollY when the effect runs, in pixels
ScrollYs == {0, 40}
\* element.getBoundingClientRect().top when the effect runs, in pixels
RectTops == {0 - 80, 20, 300}
\* the timestamps requestAnimationFrame hands to step
Timestamps == {t * TickMs : t \in 0..MaxTicks}

\* line 36
distance == targetPosition - startPosition

\* line 43 without the clamp: elapsed / duration
progressUnclamped(elapsed) == elapsed

\* line 43: Math.min(elapsed / duration, 1), as a numerator over duration
progress(elapsed) == Min(elapsed, duration)

\* lines 46-47 at t = p / duration, as a numerator over Scale:
\*   2 t^2                 = 2 p^2 / duration^2
\*   1 - (-2 t + 2)^2 / 2  = 1 - 2 (duration - p)^2 / duration^2
easeInOutQuad(p) ==
    IF 2 * p < duration
    THEN 2 * p * p
    ELSE Scale - 2 * (duration - p) * (duration - p)

\* lines 29-36, 38 and 59: the effect runs for a finished search and starts
\* the animation towards the results element
scrollToElement(rectTop) ==
    /\ hasSearched /\ ~isLoading
    /\ ~scheduled
    /\ startPosition' = scrollTop \div Scale
    /\ targetPosition' = rectTop + (scrollTop \div Scale) - 20
    /\ start' = NULL
    /\ scheduled' = TRUE
    /\ UNCHANGED <<scrollTop, now>>
    /\ UNCHANGED searchVars

\* lines 40-57: one animation frame
step(timestamp) ==
    /\ scheduled
    /\ IF now = NULL THEN TRUE ELSE timestamp > now[1]
    /\ LET started == IF start = NULL \/ start = Some(0)
                      THEN timestamp
                      ELSE start[1]
           elapsed == timestamp - started
       IN  /\ start' = Some(started)
           /\ scrollTop' = startPosition * Scale
                           + distance * easeInOutQuad(progress(elapsed))
           /\ scheduled' = (elapsed < duration)
    /\ now' = Some(timestamp)
    /\ UNCHANGED <<startPosition, targetPosition>>
    /\ UNCHANGED searchVars

\* The component once a search for "lz" has succeeded, the page scrolled to
\* one of ScrollYs.
ScrollInit ==
    /\ keyword = <<"l", "z">>
    /\ contentType = "all"
    /\ isLoading = FALSE
    /\ hasSearched = TRUE
    /\ results \in {<<r>> : r \in SearchResults}
    /\ error = NULL
    /\ showQuestionOptions = FALSE
    /\ showKeywordOptions = FALSE
    /\ tab = "ask"
    /\ inFlight = 0
    /\ fetched = Some(SearchUrl(<<"l", "z">>, "all"))
    /\ lastEvent = [op |-> "settle", arg |-> "success"]
    /\ scrollTop \in {y * Scale : y \in ScrollYs}
    /\ startPosition = 0
    /\ targetPosition = 0
    /\ start = NULL
    /\ scheduled = FALSE
    /\ now = NULL

ScrollNext ==
    \/ \E rectTop \in RectTops : scrollToElement(rectTop)
    \/ \E timestamp \in Timestamps : step(timestamp)

ScrollSpec == ScrollInit /\ [][ScrollNext]_vars

(***************************************************************************)
(* Properties.                                                             *)
(***************************************************************************)
\* the state cells other than `keyword`, with the dispatched requests
allButKeyword == <<contentType, isLoading, hasSearched, results, error,
                   showQuestionOptions, showKeywordOptions, tab, inFlight,
                   fetched, scrollVars>>

\* a text of whitespace only (the empty text included)
IsBlank(s) == \A i \in 1..Len(s) : IsWhitespace(s[i])

\* a step in which handleSearch passed its guard and called fetch
Dispatched == inFlight' = inFlight + 1

\* a step in which Enter was pressed in the query input or Search was clicked
Submitted ==
    \/ lastEvent' = [op |-> "handleKeyDown", arg |-> "Enter"]
    \/ lastEvent' = [op |-> "clickSearch", arg |-> ""]

\* a step in which a suggestion chip was selected
ChipSelected ==
    lastEvent'.op \in {"handleKeywordClick", "handleQuestionClick"}

\* what a settlement leaves in (results, error) when its request is the only
\* one: the dispatch has cleared `error`, the settlement writes the rest
OwnOutcome(settlement) ==
    LET out == TryBlock(settlement)
    IN  IF out.threw
        THEN <<(<<>>), Some(CatchMessage(out.exception))>>
        ELSE <<out.data, NULL>>

\* C1: a response that is not ok and whose body is JSON with a non-empty
\* `error` field leaves exactly that field in `error`, and empties `results`.
C1_ServerErrorFieldStored ==
    [][\A r \in Responses :
          (settle(r) /\ ~r.rejected /\ ~ok(r) /\ r.body.valid
             /\ r.body.error # "")
          => (error' = Some(r.body.error) /\ results' = <<>>)]_vars

\* C2: selecting the chip L does what typing L and pressing Enter does: the
\* query text becomes L and handleSearch runs on L (one request for L when L
\* is not blank), whatever the query input held before.
C2_ChipEqualsTypeThenEnter ==
    [][\A L \in KeywordChips \cup QuestionChips :
          (handleKeywordClick(L) \/ handleQuestionClick(L))
          => (keyword' = L /\ handleSearch(L))]_vars

\* C3: isLoading is true exactly while some dispatched request has not
\* settled.
C3_LoadingIffInFlight == isLoading <=> (inFlight > 0)

\* C4: a submit (Enter or the Search button) on an empty or whitespace-only
\* query issues no request and changes no state cell; a chip selected on such
\* a query changes the query text alone.
C4_BlankSubmitIsNoOp ==
    [][IsBlank(keyword)
       => /\ Submitted => UNCHANGED <<keyword, allButKeyword>>
          /\ ChipSelected => UNCHANGED allButKeyword]_vars

\* C4 witness: Enter was just pressed on a query of two spaces, and nothing
\* has been requested.
C4_Witness ==
    /\ lastEvent = [op |-> "handleKeyDown", arg |-> "Enter"]
    /\ keyword = <<" ", " ">>
    /\ fetched = NULL /\ inFlight = 0 /\ ~hasSearched /\ ~isLoading

\* C5 as claimed: a dispatch leaves `results` empty and `error` null.
C5_DispatchClearsBoth ==
    [][Dispatched => (results' = <<>> /\ error' = NULL)]_vars

\* C5 as amended: a dispatch leaves `error` null and `results` as it was.
C5_DispatchClearsErrorKeepsResults ==
    [][Dispatched => (error' = NULL /\ results' = results)]_vars

\* C5 witness: Enter has just dispatched the only request in flight, and the
\* results of the search before are still there.
C5_Witness ==
    /\ lastEvent = [op |-> "handleKeyDown", arg |-> "Enter"]
    /\ ~IsBlank(keyword)
    /\ inFlight = 1 /\ isLoading
    /\ results # <<>> /\ error = NULL

\* C6: when the last request in flight settles, (results, error) is what
\* that settlement produces on its own, whatever settled before it.
C6_LastSettlementWins ==
    [][\A r \in Responses :
          (settle(r) /\ inFlight' = 0)
          => <<results', error'>> = OwnOutcome(r)]_vars

\* C7: both panels are shown at first, an accepted submit hides both, each
\* toggle flips its own flag alone, and after a search the toggle of the
\* panel of the active tab is still on the page.
C7_PanelsToggleableAfterSearch ==
    /\ (showQuestionOptions = TRUE /\ showKeywordOptions = TRUE)
    /\ [][Dispatched => (~showQuestionOptions' /\ ~showKeywordOptions')]_vars
    /\ [][/\ toggleQuestionOptions
             => (/\ showQuestionOptions' = ~showQuestionOptions
                 /\ UNCHANGED showKeywordOptions)
          /\ toggleKeywordOptions
             => (/\ showKeywordOptions' = ~showKeywordOptions
                 /\ UNCHANGED showQuestionOptions)]_vars
    /\ [](hasSearched => /\ tab = "ask" => QuestionPanelRendered
                         /\ tab = "keyword" => KeywordPanelRendered)

\* C8: every settlement that is not a success (fetch rejected, status not
\* 2xx, 2xx with a body that does not parse) leaves a message in `error` and
\* `results` empty.
C8_FailureSetsErrorAndEmptiesResults ==
    [][(lastEvent'.op = "settle" /\ lastEvent'.arg # "success")
       => (error' # NULL /\ results' = <<>>)]_vars

\* C8 witness: a 2xx response whose body does not parse has just settled and
\* `error` holds the invalid-response message.
C8_Witness ==
    /\ lastEvent = [op |-> "settle", arg |-> "malformed"]
    /\ error = Some(InvalidResponseMessage)
    /\ results = <<>>

\* C9: once a frame has run, another frame is queued exactly while
\* elapsed < duration, and the frame that queues none has set the scroll
\* offset to the target position.
C9_ScrollStopsOnTarget ==
    start # NULL =>
        LET elapsed == now[1] - start[1]
        IN  /\ scheduled <=> (elapsed < duration)
            /\ ~scheduled => scrollTop = targetPosition * Scale

\* C9 witness: an animation over a non-zero distance has ended on a frame
\* later than start + duration.
C9_Witness ==
    /\ start # NULL /\ ~scheduled
    /\ now[1] - start[1] > duration
    /\ distance # 0
    /\ scrollTop = targetPosition * Scale

\* C10: while hasSearched is false, `results` is empty and `error` is null.
C10_NotSearchedMeansCleared ==
    ~hasSearched => (results = <<>> /\ error = NULL)

====
